---- MODULE Spec2Model ----
(***************************************************************************)
(* A model of fixrepo (src/main.go): the catalog reshaper.                *)
(*                                                                         *)
(* Strings are sequences of bytes (naturals below 256), so that UTF-8     *)
(* repair, whitespace trimming, number formatting and date parsing are    *)
(* computed on the bytes the way the program computes them.               *)
(***************************************************************************)
EXTENDS Integers, Sequences, FiniteSets, TLC

(***************************************************************************)
(* Bounds of the model.                                                    *)
(***************************************************************************)
\* longest byte string handed to the text sanitizer
MaxLen == 4
\* longest array of apps, of versions, of news
MaxArr == 3
\* longest array of screenshots
MaxShots == 2

(***************************************************************************)
(* unicode/utf8 as used at src/main.go:297 and :307.                       *)
(***************************************************************************)
\* utf8.RuneError, U+FFFD
RuneError == 65533

InRange(b, lo, hi) == lo <= b /\ b <= hi

\* the continuation-byte range that a lead byte allows for the byte after it
AcceptLo(b0) == IF b0 = 224 THEN 160 ELSE IF b0 = 240 THEN 144 ELSE 128
AcceptHi(b0) == IF b0 = 237 THEN 159 ELSE IF b0 = 244 THEN 143 ELSE 191

\* the length a lead byte announces, 0 for a byte that cannot start a rune
LeadSize(b0) ==
    IF b0 < 128 THEN 1
    ELSE IF InRange(b0, 194, 223) THEN 2
    ELSE IF InRange(b0, 224, 239) THEN 3
    ELSE IF InRange(b0, 240, 244) THEN 4
    ELSE 0

\* utf8.DecodeRuneInString(s[i:]) for a non-empty rest: the rune and its width;
\* (RuneError, 1) for an encoding that is invalid or cut short.  i is 0-based.
DecodeRuneInString(s, i) ==
    LET n  == Len(s) - i
        b0 == s[i + 1]
        sz == LeadSize(b0)
        bad == [r |-> RuneError, size |-> 1]
    IN  IF sz = 1 THEN [r |-> b0, size |-> 1]
        ELSE IF sz = 0 \/ n < sz THEN bad
        ELSE IF ~InRange(s[i + 2], AcceptLo(b0), AcceptHi(b0)) THEN bad
        ELSE IF sz = 2 THEN [r |-> ((b0 % 32) * 64) + (s[i + 2] % 64), size |-> 2]
        ELSE IF ~InRange(s[i + 3], 128, 191) THEN bad
        ELSE IF sz = 3
             THEN [r |-> ((b0 % 16) * 4096) + ((s[i + 2] % 64) * 64) + (s[i + 3] % 64),
                   size |-> 3]
        ELSE IF ~InRange(s[i + 4], 128, 191) THEN bad
        ELSE [r |-> ((b0 % 8) * 262144) + ((s[i + 2] % 64) * 4096)
                      + ((s[i + 3] % 64) * 64) + (s[i + 4] % 64),
              size |-> 4]

\* strings.Builder.WriteRune: the UTF-8 encoding of a rune
EncodeRune(r) ==
    IF r < 128 THEN <<r>>
    ELSE IF r < 2048 THEN <<192 + (r \div 64), 128 + (r % 64)>>
    ELSE IF r < 65536
         THEN <<224 + (r \div 4096), 128 + ((r \div 64) % 64), 128 + (r % 64)>>
    ELSE <<240 + (r \div 262144), 128 + ((r \div 4096) % 64),
           128 + ((r \div 64) % 64), 128 + (r % 64)>>

\* utf8.ValidString: every rune decodes, none as an invalid single byte
\* the decoder's report of a byte that starts no valid encoding
IsInvalidByte(d) == d.r = RuneError /\ d.size = 1

RECURSIVE ValidFrom(_, _)
ValidRune(s, i, d) == IF IsInvalidByte(d) THEN FALSE ELSE ValidFrom(s, i + d.size)

ValidFrom(s, i) ==
    IF i >= Len(s) THEN TRUE ELSE ValidRune(s, i, DecodeRuneInString(s, i))

ValidString(s) == ValidFrom(s, 0)

(***************************************************************************)
(* replaceInvalidUTF8, src/main.go:304-318: one turn of its loop.          *)
(***************************************************************************)
\* what one turn appends to the builder, src/main.go:308-313: U+FFFD for an
\* invalid byte, the rune itself otherwise
WriteOf(d) == IF IsInvalidByte(d) THEN EncodeRune(RuneError) ELSE EncodeRune(d.r)

StepWrite(s, i) == WriteOf(DecodeRuneInString(s, i))

\* where one turn leaves the index, src/main.go:311,314: one byte past an
\* invalid byte, the rune's width otherwise
AdvanceOf(d) == IF IsInvalidByte(d) THEN 1 ELSE d.size

\* after a lead byte whose rune does not decode, the whole width it announces
\* is passed over
StepIndexSkip(s, i) ==
    IF LeadSize(s[i + 1]) = 0 \/ i + LeadSize(s[i + 1]) > Len(s)
    THEN i + AdvanceOf(DecodeRuneInString(s, i))
    ELSE i + LeadSize(s[i + 1])

StepIndex(s, i) == i + AdvanceOf(DecodeRuneInString(s, i))

RECURSIVE ReplaceFrom(_, _)
ReplaceFrom(s, i) ==
    IF i >= Len(s) THEN <<>>
    ELSE StepWrite(s, i) \o ReplaceFrom(s, StepIndex(s, i))

replaceInvalidUTF8(s) == ReplaceFrom(s, 0)

\* sanitizeString, src/main.go:296-301
sanitizeString(s) == IF ValidString(s) THEN s ELSE replaceInvalidUTF8(s)

(***************************************************************************)
(* strings.TrimSpace and defaultIfEmpty, src/main.go:288-293.              *)
(***************************************************************************)
\* unicode.IsSpace: the runes with the White_Space property
IsSpace(r) ==
    \/ InRange(r, 9, 13)
    \/ r \in {32, 133, 160, 5760, 8232, 8233, 8239, 8287, 12288}
    \/ InRange(r, 8192, 8202)

\* strings.TrimLeftFunc(s, unicode.IsSpace): whole runes are taken off
RECURSIVE TrimLeft(_)
DropLeft(s, d) ==
    IF IsSpace(d.r) THEN TrimLeft(SubSeq(s, d.size + 1, Len(s))) ELSE s

TrimLeft(s) == IF s = <<>> THEN s ELSE DropLeft(s, DecodeRuneInString(s, 0))

\* utf8.RuneStart
RuneStart(x) == ~InRange(x, 128, 191)

\* the start utf8.DecodeLastRuneInString decodes from: the nearest rune start
\* from start back to lim, lim when there is none
RECURSIVE BackTo(_, _, _)
BackTo(s, start, lim) ==
    IF start < lim THEN lim
    ELSE IF RuneStart(s[start + 1]) THEN start
    ELSE BackTo(s, start - 1, lim)

\* the rune read from start is the last one only when it ends where s ends
EndsAt(s, start, d) ==
    IF start + d.size # Len(s) THEN [r |-> RuneError, size |-> 1] ELSE d

LastFrom(s, start) == EndsAt(s, start, DecodeRuneInString(s, start))

\* utf8.DecodeLastRuneInString, for a non-empty s
DecodeLastRuneInString(s) ==
    IF s[Len(s)] < 128 THEN [r |-> s[Len(s)], size |-> 1]
    ELSE LastFrom(s, BackTo(s, Len(s) - 2, IF Len(s) < 4 THEN 0 ELSE Len(s) - 4))

\* strings.TrimRightFunc(s, unicode.IsSpace)
RECURSIVE TrimRight(_)
DropRight(s, d) ==
    IF IsSpace(d.r) THEN TrimRight(SubSeq(s, 1, Len(s) - d.size)) ELSE s

TrimRight(s) == IF s = <<>> THEN s ELSE DropRight(s, DecodeLastRuneInString(s))

TrimSpace(s) == TrimRight(TrimLeft(s))

\* only the empty string gives way to the default
defaultIfEmptyNoTrim(s, def) == IF s = <<>> THEN def ELSE s

defaultIfEmpty(s, def) == IF TrimSpace(s) = <<>> THEN def ELSE s

(***************************************************************************)
(* package time as parseFlexibleTime uses it, src/main.go:321-344.         *)
(* An instant is the day number counted from 0001-01-01, the second of     *)
(* that day and the nanosecond; the zero time.Time is day 0, second 0.     *)
(***************************************************************************)
IsDigit(s, i) == i < Len(s) /\ InRange(s[i + 1], 48, 57)

\* time.getnum: one or two digits, exactly two when fixed
Getnum(s, i, fixed) ==
    IF ~IsDigit(s, i) THEN [ok |-> FALSE, v |-> 0, i |-> i]
    ELSE IF ~IsDigit(s, i + 1)
         THEN (IF fixed THEN [ok |-> FALSE, v |-> 0, i |-> i]
               ELSE [ok |-> TRUE, v |-> s[i + 1] - 48, i |-> i + 1])
    ELSE [ok |-> TRUE, v |-> ((s[i + 1] - 48) * 10) + (s[i + 2] - 48), i |-> i + 2]

\* the digits s[i+1 .. i+n] as a number
RECURSIVE Atoi(_, _, _)
Atoi(s, i, n) ==
    IF n = 0 THEN 0 ELSE (Atoi(s, i, n - 1) * 10) + (s[i + n] - 48)

\* how many digits follow position i (0-based)
RECURSIVE DigitRun(_, _)
DigitRun(s, i) == IF IsDigit(s, i) THEN 1 + DigitRun(s, i + 1) ELSE 0

RECURSIVE Pow10(_)
Pow10(n) == IF n = 0 THEN 1 ELSE 10 * Pow10(n - 1)

\* time.parseNanoseconds on the n digits after the separator at i: at most
\* nine digits count, scaled to nanoseconds
ParseNanoseconds(s, i, n) ==
    LET m == IF n > 9 THEN 9 ELSE n
    IN  Atoi(s, i + 1, m) * Pow10(9 - m)

CommaOrPeriod(s, i) == i < Len(s) /\ (s[i + 1] = 46 \/ s[i + 1] = 44)

IsLeap(y) == (y % 4 = 0) /\ ((y % 100 # 0) \/ (y % 400 = 0))

DaysIn(m, y) ==
    IF m = 2 THEN (IF IsLeap(y) THEN 29 ELSE 28)
    ELSE IF m \in {4, 6, 9, 11} THEN 30 ELSE 31

\* days of the year before the first of month m
RECURSIVE DaysBeforeMonth(_, _)
DaysBeforeMonth(m, y) ==
    IF m = 1 THEN 0 ELSE DaysBeforeMonth(m - 1, y) + DaysIn(m - 1, y)

\* days from 0001-01-01 to the first of January of year y
DaysBeforeYear(y) ==
    LET p == y - 1
    IN  (365 * p) + (p \div 4) - (p \div 100) + (p \div 400)

\* time.Date(...).addSec(-offset): the instant of a wall clock reading taken
\* offset seconds east of UTC
Date(year, month, day, hour, min, sec, nsec, offset) ==
    LET d == DaysBeforeYear(year) + DaysBeforeMonth(month, year) + (day - 1)
        w == (hour * 3600) + (min * 60) + sec - offset
    IN  [days |-> d + (w \div 86400), sod |-> w % 86400, nsec |-> nsec]

ZeroTime == [days |-> 0, sod |-> 0, nsec |-> 0]

\* time.Time.IsZero
IsZero(t) == t.days = 0 /\ t.sod = 0 /\ t.nsec = 0

\* a layout is the sequence of its chunks: a reference-time element, or one
\* literal byte ("lit")
Lit(b) == [std |-> "lit", b |-> b]
Std(e) == [std |-> e, b |-> 0]

DatePart == <<Std("2006"), Lit(45), Std("01"), Lit(45), Std("02")>>
LayoutRFC3339 ==
    DatePart \o <<Lit(84), Std("15"), Lit(58), Std("04"), Lit(58), Std("05"),
                  Std("Z07:00")>>
LayoutRFC3339Nano ==
    DatePart \o <<Lit(84), Std("15"), Lit(58), Std("04"), Lit(58), Std("05"),
                  Std(".999999999"), Std("Z07:00")>>
LayoutZ ==
    DatePart \o <<Lit(84), Std("15"), Lit(58), Std("04"), Lit(58), Std("05"),
                  Lit(90)>>
LayoutNoZone ==
    DatePart \o <<Lit(84), Std("15"), Lit(58), Std("04"), Lit(58), Std("05")>>
LayoutMinutes == DatePart \o <<Lit(84), Std("15"), Lit(58), Std("04")>>
LayoutSpace ==
    DatePart \o <<Lit(32), Std("15"), Lit(58), Std("04"), Lit(58), Std("05")>>
LayoutDate == DatePart

\* the fields time.Parse collects; zset says an offset was read
NoFields ==
    [year |-> 0, month |-> 1, day |-> 1, hour |-> 0, min |-> 0, sec |-> 0,
     nsec |-> 0, zset |-> FALSE, zoff |-> 0]

Fail(i, f) == [ok |-> FALSE, i |-> i, f |-> f]
Got(i, f) == [ok |-> TRUE, i |-> i, f |-> f]

\* a two-digit field that must lie in lo..hi
NumChunk(g, i, f, field, lo, hi) ==
    IF g.ok /\ InRange(g.v, lo, hi) THEN Got(g.i, [f EXCEPT ![field] = g.v])
    ELSE Fail(i, f)

\* the n digits of a fractional second after the separator at i
FracDigits(s, i, f, n) ==
    Got(i + 1 + n, [f EXCEPT !.nsec = ParseNanoseconds(s, i, n)])

FracChunk(s, i, f) == FracDigits(s, i, f, DigitRun(s, i + 1))

\* seconds, and a fractional second that the layout does not ask for
SecondChunk(g, s, i, f, frac) ==
    IF ~(g.ok /\ g.v < 60) THEN Fail(i, f)
    ELSE IF CommaOrPeriod(s, g.i) /\ IsDigit(s, g.i + 1) /\ ~frac
         THEN FracChunk(s, g.i, [f EXCEPT !.sec = g.v])
    ELSE Got(g.i, [f EXCEPT !.sec = g.v])

\* a numeric zone +hh:mm or -hh:mm at i, of at most 24 hours and 60 minutes
OffsetChunk(s, i, f, hh, mm) ==
    IF ~hh.ok \/ ~mm.ok \/ s[i + 1] \notin {43, 45} \/ hh.v > 24 \/ mm.v > 60
    THEN Fail(i, f)
    ELSE Got(i + 6,
             [f EXCEPT !.zset = TRUE,
                       !.zoff = IF s[i + 1] = 43 THEN ((hh.v * 60) + mm.v) * 60
                                ELSE -(((hh.v * 60) + mm.v) * 60)])

ZoneChunk(s, i, f) ==
    IF i < Len(s) /\ s[i + 1] = 90
    THEN Got(i + 1, [f EXCEPT !.zset = TRUE, !.zoff = 0])
    ELSE IF i + 6 > Len(s) \/ s[i + 4] # 58 THEN Fail(i, f)
    ELSE OffsetChunk(s, i, f, Getnum(s, i + 1, TRUE), Getnum(s, i + 4, TRUE))

\* one chunk of time.Parse at position i of the value; frac says the layout's
\* next chunk is a fractional second
ParseChunk(c, s, i, f, frac) ==
    CASE c.std = "lit" ->
            IF i < Len(s) /\ s[i + 1] = c.b THEN Got(i + 1, f) ELSE Fail(i, f)
      [] c.std = "2006" ->
            IF i + 4 <= Len(s) /\ DigitRun(SubSeq(s, 1, i + 4), i) = 4
            THEN Got(i + 4, [f EXCEPT !.year = Atoi(s, i, 4)])
            ELSE Fail(i, f)
      [] c.std = "01" -> NumChunk(Getnum(s, i, TRUE), i, f, "month", 1, 12)
      [] c.std = "02" -> NumChunk(Getnum(s, i, TRUE), i, f, "day", 0, 99)
      [] c.std = "15" -> NumChunk(Getnum(s, i, FALSE), i, f, "hour", 0, 23)
      [] c.std = "04" -> NumChunk(Getnum(s, i, TRUE), i, f, "min", 0, 59)
      [] c.std = "05" -> SecondChunk(Getnum(s, i, TRUE), s, i, f, frac)
      [] c.std = ".999999999" ->
            IF CommaOrPeriod(s, i) /\ IsDigit(s, i + 1) THEN FracChunk(s, i, f)
            ELSE Got(i, f)
      [] c.std = "Z07:00" -> ZoneChunk(s, i, f)

RECURSIVE ParseChunks(_, _, _, _, _)
\* stop at the first chunk that does not match
NextChunk(layout, k, s, r) ==
    IF r.ok THEN ParseChunks(layout, k + 1, s, r.i, r.f) ELSE r

ParseChunks(layout, k, s, i, f) ==
    IF k > Len(layout) THEN (IF i = Len(s) THEN Got(i, f) ELSE Fail(i, f))
    ELSE NextChunk(layout, k, s,
                   ParseChunk(layout[k], s, i, f,
                              k < Len(layout) /\ layout[k + 1].std = ".999999999"))

\* the instant of the collected fields; a day the month does not have is an
\* error
TimeOf(ok, f, loc) ==
    IF ~ok \/ f.day < 1 \/ f.day > DaysIn(f.month, f.year)
    THEN [ok |-> FALSE, t |-> ZeroTime]
    ELSE [ok |-> TRUE,
          t |-> Date(f.year, f.month, f.day, f.hour, f.min, f.sec, f.nsec,
                     IF f.zset THEN f.zoff ELSE loc)]

Parsed(r, loc) == TimeOf(r.ok, r.f, loc)

\* time.ParseInLocation(layout, s, loc): loc is the zone's offset from UTC in
\* seconds, used only when the value names no zone; time.Parse is loc = 0
ParseInLocation(layout, s, loc) == Parsed(ParseChunks(layout, 1, s, 0, NoFields), loc)

Parse(layout, s) == ParseInLocation(layout, s, 0)


(***************************************************************************)
(* parseFlexibleTime, src/main.go:321-344.                                 *)
(***************************************************************************)


\* the layouts slice, in its order
Layouts ==
    <<LayoutRFC3339, LayoutRFC3339Nano, LayoutZ, LayoutNoZone, LayoutMinutes,
      LayoutSpace, LayoutDate>>

\* the layout of the last attempt, made with time.Local
LocalLayout == LayoutMinutes

\* the first layout from the k-th on that parses s, 0 when none does
RECURSIVE FirstLayout(_, _)
FirstLayout(s, k) ==
    IF k > Len(Layouts) THEN 0
    ELSE IF Parse(Layouts[k], s).ok THEN k
    ELSE FirstLayout(s, k + 1)

\* src/main.go:340-343: the last attempt's time, or the zero time
LocalOrZero(l) == IF l.ok THEN l.t ELSE ZeroTime

\* src/main.go:334-343 once the first matching layout k is known
ParseFrom(s, k, loc) ==
    IF k # 0 THEN Parse(Layouts[k], s).t
    ELSE LocalOrZero(ParseInLocation(LocalLayout, s, loc))

ParseTrimmed(s, loc) == ParseFrom(s, FirstLayout(s, 1), loc)

\* loc: the offset of time.Local, in seconds east of UTC
parseFlexibleTime(str, loc) == ParseTrimmed(TrimSpace(str), loc)

(***************************************************************************)
(* t.UTC().Format(time.RFC3339), src/main.go:206 and :263.                 *)
(***************************************************************************)
\* three full centuries or years at most before the leap one ends the cycle
Leapless(q) == q - (q \div 4)

YearOf(n400, n100, n4, n1, d3) ==
    [year |-> (400 * n400) + (100 * n100) + (4 * n4) + n1 + 1,
     yday |-> d3 - (365 * n1)]

InCycle4(n400, n100, n4, d3) == YearOf(n400, n100, n4, Leapless(d3 \div 365), d3)

InCentury(n400, n100, d2) == InCycle4(n400, n100, d2 \div 1461, d2 % 1461)

InCycle400(n400, n100, d1) == InCentury(n400, n100, d1 - (36524 * n100))

\* the year and the 0-based day of the year of a day number (time.absDate)
YearDay(days) ==
    InCycle400(days \div 146097, Leapless((days % 146097) \div 36524),
               days % 146097)

RECURSIVE MonthOf(_, _, _)
MonthOf(yday, y, m) ==
    IF yday < DaysBeforeMonth(m + 1, y) THEN m ELSE MonthOf(yday, y, m + 1)

\* time.appendInt: decimal digits, zero-padded to width, a sign before them
RECURSIVE Digits(_, _)
Digits(n, width) ==
    IF n < 10 /\ width <= 1 THEN <<48 + n>>
    ELSE Digits(n \div 10, width - 1) \o <<48 + (n % 10)>>

AppendInt(x, width) ==
    IF x < 0 THEN <<45>> \o Digits(-x, width) ELSE Digits(x, width)



\* the clock of the second of the day, hh:mm:ss
FormatClock(sod) ==
    AppendInt(sod \div 3600, 2) \o <<58>> \o AppendInt((sod \div 60) % 60, 2)
    \o <<58>> \o AppendInt(sod % 60, 2)

FormatDate(year, m, d) ==
    AppendInt(year, 4) \o <<45>> \o AppendInt(m, 2) \o <<45>> \o AppendInt(d, 2)

FormatMonth(yd, m) == FormatDate(yd.year, m, yd.yday - DaysBeforeMonth(m, yd.year) + 1)

FormatYearDay(yd) == FormatMonth(yd, MonthOf(yd.yday, yd.year, 1))

\* the time is in UTC, so the zone is written as Z
FormatRFC3339(t) ==
    FormatYearDay(YearDay(t.days)) \o <<84>> \o FormatClock(t.sod) \o <<90>>

(***************************************************************************)
(* The decoded document: what json.Unmarshal into interface{} yields.      *)
(* null is Go's nil, a number is a float64 (held as twice its value, so    *)
(* that halves can be written), an object is a map from its keys.          *)
(***************************************************************************)
Null == [t |-> "null"]
JBool(x) == [t |-> "bool", b |-> x]
JNum(h) == [t |-> "num", h |-> h]
JInt(n) == [t |-> "num", h |-> 2 * n]
JStr(s) == [t |-> "str", s |-> s]
JArr(a) == [t |-> "arr", a |-> a]
JObj(m) == [t |-> "obj", m |-> m]
NoKeys == <<>>

\* the bytes of the keys that objects met where a string is expected have
KeyBytes(k) ==
    CASE k = "a" -> <<97>>
      [] k = "url" -> <<117, 114, 108>>
      [] k = "imageURL" -> <<105, 109, 97, 103, 101, 85, 82, 76>>
      [] k = "patreon" -> <<112, 97, 116, 114, 101, 111, 110>>

\* digits of a natural number
Decimal(n) == Digits(n, 1)

\* digits without the zeros at their end
RECURSIVE StripZeros(_)
StripZeros(d) ==
    IF Len(d) > 1 /\ d[Len(d)] = 48 THEN StripZeros(SubSeq(d, 1, Len(d) - 1)) ELSE d

\* fmt.Sprintf("%v", float64), src/main.go:110: %g with the shortest digits,
\* the exponent form from 1e+06 on.  (No half of 1e6 or more is in the model.)
FormatFloatV(h) ==
    LET a == IF h < 0 THEN -h ELSE h
        sign == IF h < 0 THEN <<45>> ELSE <<>>
        n == a \div 2
        d == Decimal(n)
        mant == StripZeros(d)
    IN  IF a % 2 = 1 THEN sign \o d \o <<46, 53>>
        ELSE IF n < 1000000 THEN sign \o d
        ELSE sign \o <<mant[1]>>
             \o (IF Len(mant) > 1 THEN <<46>> \o Tail(mant) ELSE <<>>)
             \o <<101, 43>> \o Digits(Len(d) - 1, 2)

\* encoding/json's number: plain decimal digits below 1e21
FormatFloatJSON(h) ==
    LET a == IF h < 0 THEN -h ELSE h
    IN  (IF h < 0 THEN <<45>> ELSE <<>>) \o Decimal(a \div 2)
        \o (IF a % 2 = 1 THEN <<46, 53>> ELSE <<>>)

HexDigit(n) == IF n < 10 THEN 48 + n ELSE 87 + n

\* encoding/json's string escapes, HTML escaping on
EscapeByte(b) ==
    IF b = 34 \/ b = 92 THEN <<92, b>>
    ELSE IF b = 10 THEN <<92, 110>>
    ELSE IF b = 13 THEN <<92, 114>>
    ELSE IF b = 9 THEN <<92, 116>>
    ELSE IF b < 32 \/ b \in {60, 62, 38}
         THEN <<92, 117, 48, 48, HexDigit(b \div 16), HexDigit(b % 16)>>
    ELSE <<b>>

RECURSIVE EscapeBytes(_)
EscapeBytes(s) ==
    IF s = <<>> THEN <<>> ELSE EscapeByte(Head(s)) \o EscapeBytes(Tail(s))

Quoted(s) == <<34>> \o EscapeBytes(s) \o <<34>>

RECURSIVE LexLess(_, _)
LexLess(x, y) ==
    IF y = <<>> THEN FALSE
    ELSE IF x = <<>> THEN TRUE
    ELSE IF Head(x) # Head(y) THEN Head(x) < Head(y)
    ELSE LexLess(Tail(x), Tail(y))

\* the least of a set of keys, in the order of their bytes
MinKey(K) ==
    CHOOSE k \in K : \A j \in K \ {k} : LexLess(KeyBytes(k), KeyBytes(j))

\* json.Marshal of a decoded value: compact, the keys of an object sorted
RECURSIVE CompactJSON(_), CompactElems(_), CompactMembers(_, _)
CompactJSON(v) ==
    CASE v.t = "null" -> <<110, 117, 108, 108>>
      [] v.t = "bool" ->
            IF v.b THEN <<116, 114, 117, 101>> ELSE <<102, 97, 108, 115, 101>>
      [] v.t = "num" -> FormatFloatJSON(v.h)
      [] v.t = "str" -> Quoted(v.s)
      [] v.t = "arr" -> <<91>> \o CompactElems(v.a) \o <<93>>
      [] v.t = "obj" -> <<123>> \o CompactMembers(v.m, DOMAIN v.m) \o <<125>>

CompactElems(a) ==
    IF a = <<>> THEN <<>>
    ELSE CompactJSON(Head(a))
         \o (IF Len(a) > 1 THEN <<44>> \o CompactElems(Tail(a)) ELSE <<>>)

CompactMembers(m, K) ==
    IF K = {} THEN <<>>
    ELSE LET k == MinKey(K)
         IN  Quoted(KeyBytes(k)) \o <<58>> \o CompactJSON(m[k])
             \o (IF K # {k} THEN <<44>> \o CompactMembers(m, K \ {k}) ELSE <<>>)

(***************************************************************************)
(* getStr, src/main.go:99-121.                                             *)
(***************************************************************************)
\* a string goes the way of any other value, through json.Marshal
getStrMarshalled(m, k) ==
    IF k \notin DOMAIN m THEN <<>>
    ELSE LET v == m[k]
         IN  CASE v.t = "null" -> <<>>
               [] v.t = "num" -> FormatFloatV(v.h)
               [] v.t = "bool" -> CompactJSON(v)
               [] OTHER -> sanitizeString(CompactJSON(v))

getStr(m, k) ==
    IF k \notin DOMAIN m THEN <<>>
    ELSE LET v == m[k]
         IN  CASE v.t = "null" -> <<>>
               [] v.t = "str" -> sanitizeString(v.s)
               [] v.t = "num" -> FormatFloatV(v.h)
               [] v.t = "bool" ->
                     IF v.b THEN <<116, 114, 117, 101>>
                     ELSE <<102, 97, 108, 115, 101>>
               [] OTHER -> sanitizeString(CompactJSON(v))

(***************************************************************************)
(* The reshaping, src/main.go:97-271.  A Go struct is the record of its    *)
(* fields; json.RawMessage is the value its bytes encode, with set saying  *)
(* that there are any.                                                     *)
(***************************************************************************)
hardcodedIdentifier ==
    <<99, 111, 109, 46, 114, 105, 112, 101, 115, 116, 111, 114, 101, 46,
      115, 111, 117, 114, 99, 101>>

hardcodedSourceURL ==
    <<104, 116, 116, 112, 115, 58, 47, 47, 114, 97, 119, 46, 103, 105, 116,
      104, 117, 98, 117, 115, 101, 114, 99, 111, 110, 116, 101, 110, 116,
      46, 99, 111, 109, 47, 82, 105, 112, 101, 83, 116, 111, 114, 101, 47,
      114, 101, 112, 111, 115, 47, 109, 97, 105, 110, 47, 82, 105, 112, 101,
      83, 116, 111, 114, 101, 95, 102, 101, 97, 116, 104, 101, 114, 46, 106,
      115, 111, 110>>

\* v.([]interface{}) of the value under a key: its elements, none when the
\* key is missing or holds no array
ArrayAt(m, k) == IF k \in DOMAIN m /\ m[k].t = "arr" THEN m[k].a ELSE <<>>

\* src/main.go:135-141
RECURSIVE FeaturedOf(_)
FeaturedOf(fa) ==
    IF fa = <<>> THEN <<>>
    ELSE (IF Head(fa).t = "str" THEN <<sanitizeString(Head(fa).s)>> ELSE <<>>)
         \o FeaturedOf(Tail(fa))

\* src/main.go:162-172 and 178-188: what one element of a screenshot list
\* adds
ShotOf(item) ==
    CASE item.t = "str" -> <<sanitizeString(item.s)>>
      [] item.t = "obj" ->
            IF getStr(item.m, "imageURL") # <<>> THEN <<getStr(item.m, "imageURL")>>
            ELSE IF getStr(item.m, "url") # <<>> THEN <<getStr(item.m, "url")>>
            ELSE <<>>
      [] OTHER -> <<>>

RECURSIVE ShotsOf(_)
ShotsOf(arr) == IF arr = <<>> THEN <<>> ELSE ShotOf(Head(arr)) \o ShotsOf(Tail(arr))

\* the legacy key is used whenever screenshotURLs gave nothing
ScreenshotURLsOfLax(am) ==
    IF ShotsOf(ArrayAt(am, "screenshotURLs")) # <<>>
    THEN ShotsOf(ArrayAt(am, "screenshotURLs"))
    ELSE ShotsOf(ArrayAt(am, "screenshots"))

\* src/main.go:159-191
ScreenshotURLsOf(am) ==
    IF "screenshotURLs" \in DOMAIN am THEN ShotsOf(ArrayAt(am, "screenshotURLs"))
    ELSE IF "screenshots" \in DOMAIN am THEN ShotsOf(ArrayAt(am, "screenshots"))
    ELSE <<>>

\* src/main.go:205-209 and 262-266: the date written for a non-empty string


DateText(parsed, dateStr) ==
    IF ~IsZero(parsed) THEN FormatRFC3339(parsed) ELSE dateStr

NormalizeDate(dateStr, loc) == DateText(parseFlexibleTime(dateStr, loc), dateStr)

\* int64(n) of a float64: the fraction is cut off
TruncInt64(h) == IF h < 0 THEN -((-h) \div 2) ELSE h \div 2

\* src/main.go:197-221
VersionOf(vm, loc) ==
    [Version |-> getStr(vm, "version"),
     LocalizedDescription |-> getStr(vm, "localizedDescription"),
     DownloadURL |-> getStr(vm, "downloadURL"),
     MinOSVersion |-> getStr(vm, "minOSVersion"),
     Date |-> IF getStr(vm, "date") # <<>>
              THEN NormalizeDate(getStr(vm, "date"), loc) ELSE <<>>,
     Size |-> IF "size" \in DOMAIN vm /\ vm["size"].t = "num"
              THEN TruncInt64(vm["size"].h) ELSE 0]

\* src/main.go:194-225; the loop is left at the first element that is no object
RECURSIVE VersionsOfUntilBad(_, _)
VersionsOfUntilBad(versionsRaw, loc) ==
    IF versionsRaw = <<>> \/ Head(versionsRaw).t # "obj" THEN <<>>
    ELSE <<VersionOf(Head(versionsRaw).m, loc)>>
         \o VersionsOfUntilBad(Tail(versionsRaw), loc)

RECURSIVE VersionsOf(_, _)
VersionsOf(versionsRaw, loc) ==
    IF versionsRaw = <<>> THEN <<>>
    ELSE (IF Head(versionsRaw).t = "obj"
          THEN <<VersionOf(Head(versionsRaw).m, loc)>> ELSE <<>>)
         \o VersionsOf(Tail(versionsRaw), loc)

\* src/main.go:147-236
AppOf(am, loc) ==
    [Name |-> getStr(am, "name"),
     BundleIdentifier |-> getStr(am, "bundleIdentifier"),
     DeveloperName |-> getStr(am, "developerName"),
     Subtitle |-> getStr(am, "subtitle"),
     LocalizedDescription |-> getStr(am, "localizedDescription"),
     IconURL |-> getStr(am, "iconURL"),
     TintColor |-> getStr(am, "tintColor"),
     Category |-> getStr(am, "category"),
     ScreenshotURLs |-> ScreenshotURLsOf(am),
     Versions |-> VersionsOf(ArrayAt(am, "versions"), loc),
     AppPermissions |->
        IF "appPermissions" \in DOMAIN am
        THEN [set |-> TRUE, v |-> am["appPermissions"]]
        ELSE [set |-> FALSE, v |-> Null]]

\* src/main.go:144-239
RECURSIVE AppsOf(_, _)
AppsOf(appsRaw, loc) ==
    IF appsRaw = <<>> THEN <<>>
    ELSE (IF Head(appsRaw).t = "obj" THEN <<AppOf(Head(appsRaw).m, loc)>> ELSE <<>>)
         \o AppsOf(Tail(appsRaw), loc)

\* src/main.go:245-268; v is nil both for a key that is missing and for null
NewsItemOf(nm, loc) ==
    [Title |-> getStr(nm, "title"),
     Identifier |-> getStr(nm, "identifier"),
     Caption |-> getStr(nm, "caption"),
     TintColor |-> getStr(nm, "tintColor"),
     ImageURL |-> getStr(nm, "imageURL"),
     URL |-> getStr(nm, "url"),
     Notify |-> IF "notify" \in DOMAIN nm /\ nm["notify"].t = "bool"
                THEN nm["notify"].b ELSE FALSE,
     AppID |-> IF "appID" \in DOMAIN nm THEN nm["appID"] ELSE Null,
     Date |-> IF "date" \in DOMAIN nm /\ nm["date"].t = "str" /\ nm["date"].s # <<>>
              THEN NormalizeDate(nm["date"].s, loc) ELSE <<>>]

\* src/main.go:242-271
RECURSIVE NewsOf(_, _)
NewsOf(newsRaw, loc) ==
    IF newsRaw = <<>> THEN <<>>
    ELSE (IF Head(newsRaw).t = "obj" THEN <<NewsItemOf(Head(newsRaw).m, loc)>> ELSE <<>>)
         \o NewsOf(Tail(newsRaw), loc)

\* src/main.go:97-271: out, from the decoded document
Reshape(raw, loc) ==
    [Name |-> getStr(raw, "name"),
     Subtitle |-> getStr(raw, "subtitle"),
     Identifier |-> defaultIfEmpty(getStr(raw, "identifier"), hardcodedIdentifier),
     SourceURL |-> defaultIfEmpty(getStr(raw, "sourceURL"), hardcodedSourceURL),
     Description |-> getStr(raw, "description"),
     IconURL |-> getStr(raw, "iconURL"),
     Website |-> getStr(raw, "website"),
     PatreonURL |-> getStr(raw, "patreonURL"),
     HeaderURL |-> getStr(raw, "headerURL"),
     TintColor |-> getStr(raw, "tintColor"),
     FeaturedApps |-> FeaturedOf(ArrayAt(raw, "featuredApps")),
     Apps |-> AppsOf(ArrayAt(raw, "apps"), loc),
     News |-> NewsOf(ArrayAt(raw, "news"), loc)]

(***************************************************************************)
(* json.MarshalIndent(out), src/main.go:274, by the struct tags of         *)
(* src/main.go:20-71: the document that output.json then holds.  Every     *)
(* field is omitempty.                                                     *)
(***************************************************************************)
\* encoding/json's empty value of a field of type string, slice, int64, bool
IsEmptyValue(v) ==
    CASE v.t = "str" -> v.s = <<>>
      [] v.t = "arr" -> v.a = <<>>
      [] v.t = "num" -> v.h = 0
      [] v.t = "bool" -> ~v.b
      [] OTHER -> FALSE

\* the object of the fields, in full, that are kept
ObjectOf(full, keep) == JObj([k \in keep |-> full[k]])

OmitEmpty(full) == ObjectOf(full, {k \in DOMAIN full : ~IsEmptyValue(full[k])})

RECURSIVE JStrs(_)
JStrs(ss) == IF ss = <<>> THEN <<>> ELSE <<JStr(Head(ss))>> \o JStrs(Tail(ss))

\* the version string goes out under the key buildVersion
MarshalVersionAsBuild(v) ==
    OmitEmpty([buildVersion |-> JStr(v.Version),
               date |-> JStr(v.Date),
               localizedDescription |-> JStr(v.LocalizedDescription),
               downloadURL |-> JStr(v.DownloadURL),
               size |-> JInt(v.Size),
               minOSVersion |-> JStr(v.MinOSVersion)])

\* src/main.go:51-59
MarshalVersion(v) ==
    OmitEmpty([version |-> JStr(v.Version),
               date |-> JStr(v.Date),
               localizedDescription |-> JStr(v.LocalizedDescription),
               downloadURL |-> JStr(v.DownloadURL),
               size |-> JInt(v.Size),
               minOSVersion |-> JStr(v.MinOSVersion)])

RECURSIVE MarshalVersions(_)
MarshalVersions(vs) ==
    IF vs = <<>> THEN <<>> ELSE <<MarshalVersion(Head(vs))>> \o MarshalVersions(Tail(vs))

\* src/main.go:36-49; a RawMessage with no bytes is empty, one holding null
\* is not
MarshalApp(app) ==
    LET full == [name |-> JStr(app.Name),
                 bundleIdentifier |-> JStr(app.BundleIdentifier),
                 developerName |-> JStr(app.DeveloperName),
                 subtitle |-> JStr(app.Subtitle),
                 localizedDescription |-> JStr(app.LocalizedDescription),
                 iconURL |-> JStr(app.IconURL),
                 tintColor |-> JStr(app.TintColor),
                 category |-> JStr(app.Category),
                 screenshotURLs |-> JArr(JStrs(app.ScreenshotURLs)),
                 versions |-> JArr(MarshalVersions(app.Versions)),
                 appPermissions |-> app.AppPermissions.v]
    IN  ObjectOf(full,
                 {k \in DOMAIN full \ {"appPermissions"} : ~IsEmptyValue(full[k])}
                 \cup (IF app.AppPermissions.set THEN {"appPermissions"} ELSE {}))

RECURSIVE MarshalApps(_)
MarshalApps(as) ==
    IF as = <<>> THEN <<>> ELSE <<MarshalApp(Head(as))>> \o MarshalApps(Tail(as))

\* src/main.go:61-71; an interface{} field is empty when it is nil
MarshalNewsItem(ni) ==
    LET full == [title |-> JStr(ni.Title),
                 identifier |-> JStr(ni.Identifier),
                 caption |-> JStr(ni.Caption),
                 date |-> JStr(ni.Date),
                 tintColor |-> JStr(ni.TintColor),
                 imageURL |-> JStr(ni.ImageURL),
                 notify |-> JBool(ni.Notify),
                 url |-> JStr(ni.URL),
                 appID |-> ni.AppID]
    IN  ObjectOf(full,
                 {k \in DOMAIN full \ {"appID"} : ~IsEmptyValue(full[k])}
                 \cup (IF ni.AppID # Null THEN {"appID"} ELSE {}))

RECURSIVE MarshalNews(_)
MarshalNews(ns) ==
    IF ns = <<>> THEN <<>> ELSE <<MarshalNewsItem(Head(ns))>> \o MarshalNews(Tail(ns))

\* src/main.go:20-34
MarshalRoot(o) ==
    OmitEmpty([name |-> JStr(o.Name),
               subtitle |-> JStr(o.Subtitle),
               identifier |-> JStr(o.Identifier),
               sourceURL |-> JStr(o.SourceURL),
               description |-> JStr(o.Description),
               iconURL |-> JStr(o.IconURL),
               website |-> JStr(o.Website),
               patreonURL |-> JStr(o.PatreonURL),
               headerURL |-> JStr(o.HeaderURL),
               tintColor |-> JStr(o.TintColor),
               featuredApps |-> JArr(JStrs(o.FeaturedApps)),
               apps |-> JArr(MarshalApps(o.Apps)),
               news |-> JArr(MarshalNews(o.News))])

(***************************************************************************)
(* The bytes of the input file, src/main.go:79-95.  A file that holds a    *)
(* JSON text is the value it encodes, its strings the bytes between the    *)
(* quotes, which need not be valid UTF-8; any other file is Malformed.     *)
(***************************************************************************)
Malformed == [t |-> "malformed"]

\* utf8.Valid(b), src/main.go:86
RECURSIVE ValidDoc(_)
ValidDoc(v) ==
    CASE v.t = "str" -> ValidString(v.s)
      [] v.t = "arr" -> \A i \in 1..Len(v.a) : ValidDoc(v.a[i])
      [] v.t = "obj" -> \A k \in DOMAIN v.m : ValidDoc(v.m[k])
      [] OTHER -> TRUE

\* replaceInvalidUTF8(string(b)), src/main.go:88: the bytes outside the
\* strings are ASCII and stay
RECURSIVE ReplaceDoc(_)
ReplaceDoc(v) ==
    CASE v.t = "str" -> JStr(replaceInvalidUTF8(v.s))
      [] v.t = "arr" -> JArr([i \in 1..Len(v.a) |-> ReplaceDoc(v.a[i])])
      [] v.t = "obj" -> JObj([k \in DOMAIN v.m |-> ReplaceDoc(v.m[k])])
      [] OTHER -> v

\* json.Unmarshal(b, &raw) fails, src/main.go:92: the text is no JSON, or
\* its value is neither an object nor null
UnmarshalFails(doc) == doc.t \notin {"obj", "null"}

\* raw after json.Unmarshal: the members of the object; null leaves the nil map
UnmarshalMap(doc) == IF doc.t = "obj" THEN doc.m ELSE NoKeys

(***************************************************************************)
(* The state.                                                              *)
(***************************************************************************)
VARIABLES
    \* sanitizeString / replaceInvalidUTF8: the argument, the loop index, the
    \* builder, the position in the function and the value returned
    san_s, san_i, san_b, san_pc, san_ret,
    \* parseFlexibleTime: the argument, the trimmed s, the index of the layout
    \* tried next, the time returned, and the position in the function
    pft_in, pft_s, pft_l, pft_t, pft_pc,
    \* main: where the run is, len(os.Args), the file at os.Args[1], the
    \* locals b, raw, out and outBytes, the file output.json, what was
    \* printed, the exit code (-1 while running), and, for a second run made
    \* on the output of the first, that output
    pc, args, inFile, b, raw, out, outBytes, outputFile, stdout, stderr,
    exitCode, run, firstOut

sanVars == <<san_s, san_i, san_b, san_pc, san_ret>>
pftVars == <<pft_in, pft_s, pft_l, pft_t, pft_pc>>
mainVars ==
    <<pc, args, inFile, b, raw, out, outBytes, outputFile, stdout, stderr,
      exitCode, run, firstOut>>
vars == <<sanVars, pftVars, mainVars>>

\* no file, an unreadable file
NoFile == [state |-> "absent", doc |-> Null]
Unreadable == [state |-> "unreadable", doc |-> Null]
NoOut == <<>>

SanIdle ==
    san_s = <<>> /\ san_i = 0 /\ san_b = <<>> /\ san_pc = "idle" /\ san_ret = <<>>
PftIdle ==
    pft_in = <<>> /\ pft_s = <<>> /\ pft_l = 0 /\ pft_t = ZeroTime /\ pft_pc = "idle"
MainIdle ==
    /\ pc = "idle" /\ args = 0 /\ inFile = NoFile /\ b = Null /\ raw = NoKeys
    /\ out = NoOut /\ outBytes = Null /\ outputFile = NoFile /\ stdout = <<>>
    /\ stderr = <<>> /\ exitCode = -1 /\ run = "first" /\ firstOut = Null

(***************************************************************************)
(* The text sanitizer as a state machine: sanitizeString's test, then the  *)
(* loop of replaceInvalidUTF8 one turn at a time.                          *)
(***************************************************************************)
\* bytes that between them build valid runes of every width, runes cut
\* short, overlong and surrogate encodings, and stray continuation bytes
SanBytes == {65, 128, 160, 189, 191, 195, 226, 237, 239, 240}

SanInputs == UNION {[1..n -> SanBytes] : n \in 0..MaxLen}

SanInit ==
    /\ san_s \in SanInputs
    /\ san_i = 0 /\ san_b = <<>> /\ san_pc = "sanitizeString" /\ san_ret = <<>>
    /\ PftIdle /\ MainIdle

\* src/main.go:297-299: a valid string is returned as it is
SanValid ==
    /\ san_pc = "sanitizeString"
    /\ ValidString(san_s)
    /\ san_ret' = san_s
    /\ san_pc' = "done"
    /\ UNCHANGED <<san_s, san_i, san_b, pftVars, mainVars>>

\* src/main.go:300, 305-306: replaceInvalidUTF8 is entered
SanInvalid ==
    /\ san_pc = "sanitizeString"
    /\ ~ValidString(san_s)
    /\ san_i' = 0
    /\ san_b' = <<>>
    /\ san_pc' = "loop"
    /\ UNCHANGED <<san_s, san_ret, pftVars, mainVars>>

\* src/main.go:306-315: one turn of the loop
SanStep ==
    /\ san_pc = "loop"
    /\ san_i < Len(san_s)
    /\ san_b' = san_b \o StepWrite(san_s, san_i)
    /\ san_i' = StepIndex(san_s, san_i)
    /\ UNCHANGED <<san_s, san_pc, san_ret, pftVars, mainVars>>

\* src/main.go:306, 317: the loop ends and the builder is returned
SanReturn ==
    /\ san_pc = "loop"
    /\ san_i >= Len(san_s)
    /\ san_ret' = san_b
    /\ san_pc' = "done"
    /\ UNCHANGED <<san_s, san_i, san_b, pftVars, mainVars>>

SanNext == SanValid \/ SanInvalid \/ SanStep \/ SanReturn

SpecSanitize == SanInit /\ [][SanNext]_vars

(***************************************************************************)
(* parseFlexibleTime as a state machine: the trim, the layouts one at a    *)
(* time, the attempt in the local zone, the zero time.                    *)
(***************************************************************************)
\* the bytes of a calendar date, a clock reading, a zone
YMD(y, m, d) == AppendInt(y, 4) \o <<45>> \o AppendInt(m, 2) \o <<45>> \o AppendInt(d, 2)

DateTexts ==
    {YMD(y, md[1], md[2]) :
        y \in {0, 1, 2023, 2024, 9999},
        md \in {<<1, 1>>, <<1, 5>>, <<2, 29>>, <<12, 31>>, <<13, 1>>}}

\* 00:00, 14:30, 23:59, 24:00 and the one-digit hour 5:04
ClockTexts ==
    {<<48, 48, 58, 48, 48>>, <<49, 52, 58, 51, 48>>, <<50, 51, 58, 53, 57>>,
     <<50, 52, 58, 48, 48>>, <<53, 58, 48, 52>>}

\* no seconds, :00, :59, :00.5
SecondTexts == {<<>>, <<58, 48, 48>>, <<58, 53, 57>>, <<58, 48, 48, 46, 53>>}

\* no time of day, or T or a space and a clock reading
TimeTexts ==
    {<<>>} \cup {<<sep>> \o c \o sec :
                    sep \in {84, 32}, c \in ClockTexts, sec \in SecondTexts}

\* no zone, Z, +02:00, -05:00
ZoneTexts ==
    {<<>>, <<90>>, <<43, 48, 50, 58, 48, 48>>, <<45, 48, 53, 58, 48, 48>>}

\* "not-a-date"
NotADate == <<110, 111, 116, 45, 97, 45, 100, 97, 116, 101>>

TimeInputs ==
    {pad \o d \o tm \o z \o pad :
        pad \in {<<>>, <<32>>}, d \in DateTexts, tm \in TimeTexts, z \in ZoneTexts}
    \cup {NotADate, <<>>, <<32>>}

\* offsets time.Local may have, in seconds east of UTC
LocalOffsets == {-18000, 0, 7200}

PftInit ==
    /\ pft_in \in TimeInputs
    /\ pft_s = pft_in /\ pft_l = 0 /\ pft_t = ZeroTime /\ pft_pc = "trim"
    /\ SanIdle /\ MainIdle

\* src/main.go:323
PftTrim ==
    /\ pft_pc = "trim"
    /\ pft_s' = TrimSpace(pft_s)
    /\ pft_l' = 1
    /\ pft_pc' = "layouts"
    /\ UNCHANGED <<pft_in, pft_t, sanVars, mainVars>>

\* src/main.go:334-337: the layout parses s, its time is returned
PftLayoutMatches ==
    /\ pft_pc = "layouts"
    /\ pft_l <= Len(Layouts)
    /\ Parse(Layouts[pft_l], pft_s).ok
    /\ pft_t' = Parse(Layouts[pft_l], pft_s).t
    /\ pft_pc' = "returned"
    /\ UNCHANGED <<pft_in, pft_s, pft_l, sanVars, mainVars>>

\* src/main.go:334-338: it does not, the next layout is tried
PftLayoutFails ==
    /\ pft_pc = "layouts"
    /\ pft_l <= Len(Layouts)
    /\ ~Parse(Layouts[pft_l], pft_s).ok
    /\ pft_l' = pft_l + 1
    /\ UNCHANGED <<pft_in, pft_s, pft_t, pft_pc, sanVars, mainVars>>

\* src/main.go:339-343: the attempt with time.Local, whose time is returned
\* when it parses, the zero time when it does not
PftLocal ==
    /\ pft_pc = "layouts"
    /\ pft_l > Len(Layouts)
    /\ \E loc \in LocalOffsets :
          LET l == ParseInLocation(LocalLayout, pft_s, loc)
          IN  /\ pft_t' = IF l.ok THEN l.t ELSE ZeroTime
              /\ pft_pc' = IF l.ok THEN "returnedLocal" ELSE "returnedZero"
    /\ UNCHANGED <<pft_in, pft_s, pft_l, sanVars, mainVars>>

PftNext == PftTrim \/ PftLayoutMatches \/ PftLayoutFails \/ PftLocal

SpecTime == PftInit /\ [][PftNext]_vars


(***************************************************************************)
(* The input files of the model.                                           *)
(***************************************************************************)
\* a key that the object does not have
Absent == [t |-> "absent"]

\* the object m with v under k, unless v is Absent
With(m, k, v) == IF v = Absent THEN m ELSE (k :> v) @@ m

\* the sequences over S of length at most n
SeqsUpTo(S, n) == UNION {[1..i -> S] : i \in 0..n}

TextA == <<97>>
TextB == <<98>>
\* " x ", and A 0x80 B: a byte that is no character between two ASCII runs
TextPadded == <<32, 120, 32>>
TextBad == <<65, 128, 66>>
\* a no-break space and a thin space, U+00A0 U+2009
TextNoBreak == <<194, 160, 226, 128, 137>>

\* values of every type, for a key where a string is expected
LooseValues ==
    {Absent, Null, JStr(<<>>), JStr(<<32>>), JStr(<<32, 9, 10>>), JStr(TextNoBreak), JStr(TextPadded),
     JStr(TextA), JStr(TextBad), JStr(hardcodedIdentifier), JInt(0),
     JInt(1048576), JNum(3), JBool(TRUE), JBool(FALSE), JArr(<<>>),
     JArr(<<JStr(<<>>)>>), JObj(NoKeys), JObj([a |-> JStr(<<32>>)])}

\* identifier and sourceURL of every kind
RootDocs ==
    {JObj(With(With([name |-> JStr(TextA)], "identifier", i), "sourceURL", u)) :
        i \in LooseValues, u \in LooseValues}

App1 == JObj([name |-> JStr(TextA), bundleIdentifier |-> JStr(TextA)])
App2 == JObj([name |-> JStr(TextB)])
Version1 == JObj([version |-> JStr(TextA), size |-> JInt(1048576)])
Version2 == JObj([version |-> JStr(TextB)])
News1 == JObj([title |-> JStr(TextA), notify |-> JBool(TRUE)])
News2 == JObj([title |-> JStr(TextB)])

\* elements of an array that are no objects
Strays == {JStr(TextA), Null, JInt(1)}

\* what may stand where an array is expected
NoArrays == {Null, JStr(TextA), JObj(NoKeys)}

\* arrays of apps, of versions and of news in which strays stand
ArrayDocs ==
    {JObj([apps |-> v]) :
        v \in NoArrays \cup {JArr(a) : a \in SeqsUpTo(Strays \cup {App1, App2}, MaxArr)}}
    \cup
    {JObj([apps |-> JArr(<<JObj([name |-> JStr(TextA), versions |-> v])>>)]) :
        v \in NoArrays
              \cup {JArr(a) : a \in SeqsUpTo(Strays \cup {Version1, Version2}, MaxArr)}}
    \cup
    {JObj([news |-> v]) :
        v \in NoArrays \cup {JArr(a) : a \in SeqsUpTo(Strays \cup {News1, News2}, MaxArr)}}

ShotElems ==
    {JStr(TextA), JStr(<<>>), Null,
     JObj([imageURL |-> JStr(TextA)]), JObj([url |-> JStr(TextB)]),
     JObj([imageURL |-> JStr(<<>>), url |-> JStr(TextB)]),
     JObj([imageURL |-> JStr(TextA), url |-> JStr(TextB)]),
     JObj([imageURL |-> JStr(<<>>), url |-> JStr(<<>>)]),
     JObj([imageURL |-> JInt(5)])}

\* [{"imageURL":"a"},{"url":"b"},{"imageURL":"","url":""}]
LegacyShots ==
    JArr(<<JObj([imageURL |-> JStr(TextA)]), JObj([url |-> JStr(TextB)]),
           JObj([imageURL |-> JStr(<<>>), url |-> JStr(<<>>)])>>)

\* apps with screenshotURLs, screenshots, both or neither
ShotDocs ==
    {JObj([apps |-> JArr(<<JObj(With(With([name |-> JStr(TextA)],
                                          "screenshotURLs", s), "screenshots", l))>>)]) :
        s \in {Absent, Null, JStr(TextA)}
              \cup {JArr(a) : a \in SeqsUpTo(ShotElems, MaxShots)},
        l \in {Absent, Null, LegacyShots, JArr(<<JStr(TextB)>>)}}

DocDateTexts ==
    {pad \o YMD(y, md[1], md[2]) \o tm \o z \o pad :
        pad \in {<<>>, <<32>>},
        y \in {1, 2023, 9999},
        md \in {<<1, 1>>, <<1, 5>>, <<2, 29>>, <<12, 31>>},
        tm \in {<<>>,
                <<84, 49, 52, 58, 51, 48>>,
                <<84, 49, 52, 58, 51, 48, 58, 48, 48>>,
                <<32, 49, 52, 58, 51, 48, 58, 48, 48>>,
                <<84, 50, 51, 58, 53, 57, 58, 53, 57>>,
                <<84, 48, 48, 58, 48, 48, 58, 48, 48, 46, 53>>},
        z \in ZoneTexts}
    \cup {NotADate, <<>>, <<32>>}

\* a version and a news item with the same date
DateDocs ==
    {JObj([apps |-> JArr(<<JObj([name |-> JStr(TextA),
                                 versions |-> JArr(<<JObj(With([version |-> JStr(TextA)],
                                                               "date", d))>>)])>>),
           news |-> JArr(<<JObj(With([title |-> JStr(TextA)], "date", d))>>)]) :
        d \in {JStr(s) : s \in DocDateTexts} \cup {Absent, Null, JInt(2023), JBool(TRUE)}}

\* apps with the keys that are never copied, and with appPermissions
DroppedDocs ==
    {JObj([apps |-> JArr(<<JObj(
        With(With(With(
            [name |-> JStr(TextA),
             versions |-> JArr(<<JObj(With([version |-> JStr(TextA)],
                                           "buildVersion", bv))>>)],
            "marketplaceID", mp), "patreon", pt), "appPermissions", ap))>>)]) :
        mp \in {Absent, JStr(TextA), JObj(NoKeys)},
        pt \in {Absent, Null, JStr(TextA), JObj([a |-> JInt(1)])},
        bv \in {Absent, JStr(TextA), JInt(1)},
        ap \in {Absent, Null, JStr(TextA), JObj(NoKeys), JObj([patreon |-> JInt(1)]),
                JArr(<<JObj([buildVersion |-> JStr(TextA)])>>)}}

\* news items with appID, notify of every kind, versions with size
ScalarDocs ==
    {JObj([news |-> JArr(<<JObj(With(With([title |-> JStr(TextA)],
                                          "appID", id), "notify", nf))>>)]) :
        id \in {Absent, Null, JStr(TextA), JStr(<<>>), JInt(0), JInt(5), JNum(3),
                JBool(FALSE), JObj([a |-> Null]), JArr(<<>>)},
        nf \in {Absent, Null, JBool(TRUE), JBool(FALSE), JStr(<<116, 114, 117, 101>>),
                JInt(1)}}
    \cup
    {JObj([apps |-> JArr(<<JObj([versions |->
                JArr(<<JObj(With([version |-> JStr(TextA)], "size", sz))>>)])>>)]) :
        sz \in {Absent, Null, JInt(0), JNum(1), JNum(3), JNum(-3), JInt(1048576),
                JStr(<<53>>), JBool(TRUE)}}

\* files whose value is no object, and a file that is no JSON
OtherDocs == {Malformed, Null, JArr(<<>>), JStr(TextA), JObj(NoKeys)}

InputDocs ==
    RootDocs \cup ArrayDocs \cup ShotDocs \cup DateDocs \cup DroppedDocs
    \cup ScalarDocs \cup OtherDocs

(***************************************************************************)
(* main, src/main.go:73-286, stage by stage.                               *)
(***************************************************************************)
Init ==
    /\ \/ args = 1 /\ inFile = NoFile
       \/ /\ args = 2
          /\ inFile \in {Unreadable} \cup {[state |-> "whole", doc |-> d] : d \in InputDocs}
    /\ pc = "args"
    /\ b = Null /\ raw = NoKeys /\ out = NoOut /\ outBytes = Null
    /\ outputFile = NoFile
    /\ stdout = <<>> /\ stderr = <<>>
    /\ exitCode = -1
    /\ run = "first" /\ firstOut = Null
    /\ SanIdle /\ PftIdle

Exit(code) == pc' = "exited" /\ exitCode' = code

\* src/main.go:74-77
NoArgument ==
    /\ pc = "args"
    /\ args < 2
    /\ stdout' = Append(stdout, "usage")
    /\ Exit(1)
    /\ UNCHANGED <<args, inFile, b, raw, out, outBytes, outputFile, stderr, run,
                   firstOut, sanVars, pftVars>>

\* src/main.go:78
Argument ==
    /\ pc = "args"
    /\ args >= 2
    /\ pc' = "read"
    /\ UNCHANGED <<args, inFile, b, raw, out, outBytes, outputFile, stdout, stderr,
                   exitCode, run, firstOut, sanVars, pftVars>>

\* src/main.go:79-83
ReadError ==
    /\ pc = "read"
    /\ inFile.state # "whole"
    /\ stderr' = Append(stderr, "read error")
    /\ Exit(2)
    /\ UNCHANGED <<args, inFile, b, raw, out, outBytes, outputFile, stdout, run,
                   firstOut, sanVars, pftVars>>

\* src/main.go:79, 85-89: the bytes are read and, when they are not valid
\* UTF-8, repaired
ReadFile ==
    /\ pc = "read"
    /\ inFile.state = "whole"
    /\ b' = IF ValidDoc(inFile.doc) THEN inFile.doc ELSE ReplaceDoc(inFile.doc)
    /\ pc' = "unmarshal"
    /\ UNCHANGED <<args, inFile, raw, out, outBytes, outputFile, stdout, stderr,
                   exitCode, run, firstOut, sanVars, pftVars>>

\* src/main.go:92-95
ParseError ==
    /\ pc = "unmarshal"
    /\ UnmarshalFails(b)
    /\ stderr' = Append(stderr, "json parse")
    /\ Exit(3)
    /\ UNCHANGED <<args, inFile, b, raw, out, outBytes, outputFile, stdout, run,
                   firstOut, sanVars, pftVars>>

\* src/main.go:91-92
Unmarshal ==
    /\ pc = "unmarshal"
    /\ ~UnmarshalFails(b)
    /\ raw' = UnmarshalMap(b)
    /\ pc' = "reshape"
    /\ UNCHANGED <<args, inFile, b, out, outBytes, outputFile, stdout, stderr,
                   exitCode, run, firstOut, sanVars, pftVars>>

\* src/main.go:97-271, in whatever zone time.Local is
ReshapeDocument ==
    /\ pc = "reshape"
    /\ \E loc \in LocalOffsets : out' = Reshape(raw, loc)
    /\ pc' = "marshal"
    /\ UNCHANGED <<args, inFile, b, raw, outBytes, outputFile, stdout, stderr,
                   exitCode, run, firstOut, sanVars, pftVars>>

\* src/main.go:274-278; whether the encoder can fail on out is left open
MarshalError ==
    /\ pc = "marshal"
    /\ stderr' = Append(stderr, "marshal")
    /\ Exit(4)
    /\ UNCHANGED <<args, inFile, b, raw, out, outBytes, outputFile, stdout, run,
                   firstOut, sanVars, pftVars>>

\* src/main.go:274
Marshal ==
    /\ pc = "marshal"
    /\ outBytes' = MarshalRoot(out)
    /\ pc' = "write"
    /\ UNCHANGED <<args, inFile, b, raw, out, outputFile, stdout, stderr, exitCode,
                   run, firstOut, sanVars, pftVars>>

\* ioutil.WriteFile opens output.json with O_CREATE|O_TRUNC and then writes:
\* it fails before the file is opened and leaves it as it was, or after, and
\* leaves it cut to a part of the bytes
FileAfterFailedWrite == {outputFile, [state |-> "partial", doc |-> Null]}

\* src/main.go:281-284
WriteError ==
    /\ pc = "write"
    /\ outputFile' \in FileAfterFailedWrite
    /\ stderr' = Append(stderr, "write")
    /\ Exit(5)
    /\ UNCHANGED <<args, inFile, b, raw, out, outBytes, stdout, run, firstOut,
                   sanVars, pftVars>>

\* src/main.go:281, 285
WriteFile ==
    /\ pc = "write"
    /\ outputFile' = [state |-> "whole", doc |-> outBytes]
    /\ stdout' = Append(stdout, "wrote")
    /\ Exit(0)
    /\ UNCHANGED <<args, inFile, b, raw, out, outBytes, stderr, run, firstOut,
                   sanVars, pftVars>>

\* the program is run again, on the output.json it wrote
RunAgain ==
    /\ pc = "exited" /\ exitCode = 0 /\ run = "first"
    /\ run' = "again"
    /\ firstOut' = outputFile.doc
    /\ inFile' = outputFile
    /\ pc' = "args"
    /\ b' = Null /\ raw' = NoKeys /\ out' = NoOut /\ outBytes' = Null
    /\ stdout' = <<>> /\ stderr' = <<>>
    /\ exitCode' = -1
    /\ UNCHANGED <<args, outputFile, sanVars, pftVars>>

Next ==
    \/ NoArgument \/ Argument \/ ReadError \/ ReadFile \/ ParseError \/ Unmarshal
    \/ ReshapeDocument \/ MarshalError \/ Marshal \/ WriteError \/ WriteFile
    \/ RunAgain

Spec == Init /\ [][Next]_vars

(***************************************************************************)
(* CLAIMS                                                                  *)
(***************************************************************************)

(***************************************************************************)
(* The well-formed UTF-8 byte sequences of the Unicode standard (table     *)
(* 3-7), and the repair the sanitizer is meant to make, stated without     *)
(* the decoder: a well-formed sequence is kept, any other byte becomes     *)
(* one U+FFFD.                                                             *)
(***************************************************************************)
Cont(x) == InRange(x, 128, 191)

WellFormed(q) ==
    CASE Len(q) = 1 -> q[1] <= 127
      [] Len(q) = 2 -> InRange(q[1], 194, 223) /\ Cont(q[2])
      [] Len(q) = 3 ->
            /\ Cont(q[3])
            /\ \/ q[1] = 224 /\ InRange(q[2], 160, 191)
               \/ InRange(q[1], 225, 236) /\ Cont(q[2])
               \/ q[1] = 237 /\ InRange(q[2], 128, 159)
               \/ InRange(q[1], 238, 239) /\ Cont(q[2])
      [] Len(q) = 4 ->
            /\ Cont(q[3]) /\ Cont(q[4])
            /\ \/ q[1] = 240 /\ InRange(q[2], 144, 191)
               \/ InRange(q[1], 241, 243) /\ Cont(q[2])
               \/ q[1] = 244 /\ InRange(q[2], 128, 143)
      [] OTHER -> FALSE

\* the widths at which s starts with a well-formed sequence (at most one)
WellFormedPrefixes(s) ==
    {k \in 1..4 : k <= Len(s) /\ WellFormed(SubSeq(s, 1, k))}

ReplacementBytes == <<239, 191, 189>>

RECURSIVE Repaired(_)
Repaired(s) ==
    IF s = <<>> THEN <<>>
    ELSE IF WellFormedPrefixes(s) # {}
         THEN LET k == CHOOSE k \in WellFormedPrefixes(s) : TRUE
              IN  SubSeq(s, 1, k) \o Repaired(SubSeq(s, k + 1, Len(s)))
    ELSE ReplacementBytes \o Repaired(Tail(s))

\* C7: the sanitizer returns a wholly valid string unchanged; otherwise it
\* returns the string with every undecodable byte replaced by exactly one
\* U+FFFD and every well-formed character kept in its place; its loop never
\* runs past the end of the string and ends having consumed every byte.
C7_SanitizerRepairs ==
    /\ san_i <= Len(san_s)
    /\ san_pc = "loop" => san_b = Repaired(SubSeq(san_s, 1, san_i))
    /\ san_pc = "done" =>
          /\ san_ret = Repaired(san_s)
          /\ (Repaired(san_s) = san_s) => san_ret = san_s
          /\ (san_b # <<>> \/ ~ValidString(san_s)) => san_i = Len(san_s)

\* A byte that is no character, between two ASCII runs, has become one
\* U+FFFD and the runs are whole: A 0x80 A.
C7_Witness ==
    /\ san_pc = "done"
    /\ san_s = <<65, 128, 65>>
    /\ san_ret = <<65, 239, 191, 189, 65>>

\* C10: the layouts are tried in their order and the first that parses gives
\* the result, and the last attempt is effective: some minute-truncated
\* timestamp is rejected by every layout of the list and accepted by the last
\* attempt, the one read in the local zone.
C10_FallbackEffective ==
    pft_pc \in {"returned", "returnedLocal", "returnedZero"} =>
        \E str \in TimeInputs : \E loc \in LocalOffsets :
            /\ FirstLayout(TrimSpace(str), 1) = 0
            /\ ParseInLocation(LocalLayout, TrimSpace(str), loc).ok

\* "2023-01-05T14:30" is read by the fifth layout, as 14:30 UTC.
C10_Witness ==
    /\ pft_pc = "returned"
    /\ pft_in = YMD(2023, 1, 5) \o <<84, 49, 52, 58, 51, 48>>
    /\ pft_l = 5
    /\ FormatRFC3339(pft_t) = YMD(2023, 1, 5) \o <<84, 49, 52, 58, 51, 48, 58, 48, 48, 90>>

(***************************************************************************)
(* What the claims about a whole run speak of: the decoded input, raw, and *)
(* the document output.json holds once the run has ended with code 0.      *)
(***************************************************************************)
Done == pc = "exited" /\ exitCode = 0

\* the members of the root object of output.json
Written == outputFile.doc.m

\* the value under a key, Absent when the object has no such key
Field(m, k) == IF k \in DOMAIN m THEN m[k] ELSE Absent

\* the bytes of a string member, none when it was left out
Text(m, k) == IF k \in DOMAIN m THEN m[k].s ELSE <<>>

IsObject(v) == v.t = "obj"

\* the elements of the array under k that are objects, in their order
Objects(m, k) == SelectSeq(ArrayAt(m, k), IsObject)

\* the white space of Unicode, as encodings
SpaceRunes ==
    (9..13) \cup {32, 133, 160, 5760, 8232, 8233, 8239, 8287, 12288}
    \cup (8192..8202)

SpaceEncodings == {EncodeRune(r) : r \in SpaceRunes}

RECURSIVE WhitespaceOnly(_)
WhitespaceOnly(s) ==
    \/ s = <<>>
    \/ \E n \in 1..3 :
          /\ n <= Len(s)
          /\ SubSeq(s, 1, n) \in SpaceEncodings
          /\ WhitespaceOnly(SubSeq(s, n + 1, Len(s)))

\* absent, null, or a blank string
Blank(v) == v = Absent \/ v = Null \/ (v.t = "str" /\ WhitespaceOnly(v.s))

\* the string a value is coerced to
Coerced(v) == IF v = Absent THEN <<>> ELSE getStr([x |-> v], "x")

DefaultOf(k) == IF k = "identifier" THEN hardcodedIdentifier ELSE hardcodedSourceURL

\* C1: for every input whose top level is an object, the identifier and the
\* sourceURL written are strings that are never empty: the fixed default when
\* the input value is absent, null or a blank string, and the coerced input
\* value in every other case.
C1_DefaultsFilled ==
    Done =>
        \A k \in {"identifier", "sourceURL"} :
            /\ k \in DOMAIN Written
            /\ Written[k].t = "str"
            /\ Written[k].s # <<>>
            /\ Blank(Field(raw, k)) => Written[k].s = DefaultOf(k)
            /\ ~Blank(Field(raw, k)) => Written[k].s = Coerced(Field(raw, k))

\* A run on {"name":"a","identifier":" \t\n","sourceURL":1048576}: the blank
\* identifier gave way to the default, the number is written as 1.048576e+06.
C1_Witness ==
    /\ Done /\ run = "first"
    /\ Field(raw, "identifier") = JStr(<<32, 9, 10>>)
    /\ Field(raw, "sourceURL") = JInt(1048576)
    /\ Written["identifier"] = JStr(hardcodedIdentifier)
    /\ Written["sourceURL"] = JStr(<<49, 46, 48, 52, 56, 53, 55, 54, 101, 43, 48, 54>>)

\* C2: the program run on the output.json it wrote writes the same document
\* again: no field appears, disappears or changes.
C2_Idempotent ==
    (run = "again" /\ Done) => outputFile.doc = firstOut

\* The second run has ended on the output of a first run that held a version
\* and a news item dated 2023-01-05T12:30:00Z, and wrote the same document.
C2_Witness ==
    /\ run = "again" /\ Done
    /\ outputFile.doc = firstOut
    /\ Objects(firstOut.m, "news") # <<>>
    /\ Objects(firstOut.m, "apps") # <<>>
    /\ Text(Objects(firstOut.m, "news")[1].m, "date")
          = YMD(2023, 1, 5) \o <<84, 49, 50, 58, 51, 48, 58, 48, 48, 90>>
    /\ Text(Objects(raw, "apps")[1].m, "name") = TextA

\* the apps and the news of the input that are objects, and what was written
\* for them
AppsRead == Objects(raw, "apps")
AppsWritten == ArrayAt(Written, "apps")
NewsRead == Objects(raw, "news")
NewsWritten == ArrayAt(Written, "news")

\* the Flexible Date Parser accepts s: one of its layouts parses the trimmed
\* string, in the list or at the last attempt
Accepted(s) ==
    \/ FirstLayout(TrimSpace(s), 1) # 0
    \/ \E loc \in LocalOffsets : ParseInLocation(LocalLayout, TrimSpace(s), loc).ok

\* YYYY-MM-DDTHH:MM:SSZ
CanonicalForm(s) ==
    /\ Len(s) = 20
    /\ \A i \in {1, 2, 3, 4, 6, 7, 9, 10, 12, 13, 15, 16, 18, 19} : InRange(s[i], 48, 57)
    /\ s[5] = 45 /\ s[8] = 45 /\ s[11] = 84 /\ s[14] = 58 /\ s[17] = 58 /\ s[20] = 90

\* the date written for the date string s is the one C3 asks for
DateAsClaimed(s, written) ==
    IF Accepted(s)
    THEN /\ CanonicalForm(written)
         /\ \E loc \in LocalOffsets : written = FormatRFC3339(parseFlexibleTime(s, loc))
    ELSE written = s

\* the non-empty date string of an input object, if it has one
HasDate(m) == "date" \in DOMAIN m /\ m["date"].t = "str" /\ m["date"].s # <<>>

\* C3: the date written for a version or a news item whose date string the
\* Flexible Date Parser accepts is that instant in UTC, as
\* YYYY-MM-DDTHH:MM:SSZ; a date string it does not accept is written
\* unchanged; versions and news items alike.
C3_DatesCanonical ==
    Done =>
        /\ \A i \in 1..Len(NewsRead) :
              HasDate(NewsRead[i].m) =>
                  DateAsClaimed(NewsRead[i].m["date"].s, Text(NewsWritten[i].m, "date"))
        /\ \A i \in 1..Len(AppsRead) :
              \A j \in 1..Len(Objects(AppsRead[i].m, "versions")) :
                  HasDate(Objects(AppsRead[i].m, "versions")[j].m) =>
                      DateAsClaimed(Objects(AppsRead[i].m, "versions")[j].m["date"].s,
                                    Text(ArrayAt(AppsWritten[i].m, "versions")[j].m, "date"))

\* A news item dated 0001-01-01, which the date-only layout accepts, was
\* written with its date as it came.
C3_Witness ==
    /\ Done /\ run = "first"
    /\ Len(NewsRead) = 1
    /\ HasDate(NewsRead[1].m)
    /\ NewsRead[1].m["date"].s = YMD(1, 1, 1)
    /\ FirstLayout(YMD(1, 1, 1), 1) = 7
    /\ Text(NewsWritten[1].m, "date") = YMD(1, 1, 1)

DroppedKeys == {"marketplaceID", "patreon", "buildVersion"}

\* a key of K is met somewhere in the value
RECURSIVE HasKeyDeep(_, _)
HasKeyDeep(v, K) ==
    CASE v.t = "obj" ->
            \/ DOMAIN v.m \cap K # {}
            \/ \E k \in DOMAIN v.m : HasKeyDeep(v.m[k], K)
      [] v.t = "arr" -> \E i \in 1..Len(v.a) : HasKeyDeep(v.a[i], K)
      [] OTHER -> FALSE

\* C4: none of marketplaceID, patreon, buildVersion is met anywhere in an
\* app that was written, at any depth, its versions and its appPermissions
\* payload included.
C4_DroppedKeysNowhere ==
    Done => \A i \in 1..Len(AppsWritten) : ~HasKeyDeep(AppsWritten[i], DroppedKeys)

\* C4, amended: none of marketplaceID, patreon, buildVersion is a member of
\* an app object that was written or of one of its version objects, whatever
\* the input held under them; the appPermissions payload is written as it
\* was read, with whatever keys it has.
C4_DroppedKeysNoMembers ==
    Done =>
        /\ Len(AppsWritten) = Len(AppsRead)
        /\ \A i \in 1..Len(AppsWritten) :
              /\ DOMAIN AppsWritten[i].m \cap DroppedKeys = {}
              /\ \A j \in 1..Len(ArrayAt(AppsWritten[i].m, "versions")) :
                    DOMAIN ArrayAt(AppsWritten[i].m, "versions")[j].m \cap DroppedKeys = {}
              /\ Field(AppsWritten[i].m, "appPermissions")
                    = Field(AppsRead[i].m, "appPermissions")

\* An app with marketplaceID, patreon, a version with buildVersion and the
\* appPermissions {"patreon":1} was written: without the three keys as
\* members, with the payload whole.
C4_Witness ==
    /\ Done /\ run = "first"
    /\ Len(AppsRead) = 1
    /\ {"marketplaceID", "patreon", "appPermissions"} \subseteq DOMAIN AppsRead[1].m
    /\ "buildVersion" \in DOMAIN Objects(AppsRead[1].m, "versions")[1].m
    /\ Field(AppsWritten[1].m, "appPermissions") = JObj([patreon |-> JInt(1)])
    /\ DOMAIN AppsWritten[1].m = {"name", "versions", "appPermissions"}
    /\ DOMAIN ArrayAt(AppsWritten[1].m, "versions")[1].m = {"version"}

\* what is written for the objects of a list, one entry each, in their order
EntriesOfApps(objs, loc) == [i \in 1..Len(objs) |-> MarshalApp(AppOf(objs[i].m, loc))]
EntriesOfVersions(objs, loc) ==
    [i \in 1..Len(objs) |-> MarshalVersion(VersionOf(objs[i].m, loc))]
EntriesOfNews(objs, loc) ==
    [i \in 1..Len(objs) |-> MarshalNewsItem(NewsItemOf(objs[i].m, loc))]

\* C5: of apps, of the versions of an app and of news, the list written has
\* one entry for each element of the input that is an object, in the order
\* of the input, each the entry that element gives by itself; the other
\* elements are passed over and the run goes on.
C5_ObjectsKeptInOrder ==
    /\ pc \in {"marshal", "write"} \/ Done =>
          /\ Len(out.Apps) = Len(AppsRead)
          /\ Len(out.News) = Len(NewsRead)
          /\ \A i \in 1..Len(AppsRead) :
                Len(out.Apps[i].Versions) = Len(Objects(AppsRead[i].m, "versions"))
    /\ Done =>
          \E loc \in LocalOffsets :
              /\ AppsWritten = EntriesOfApps(AppsRead, loc)
              /\ NewsWritten = EntriesOfNews(NewsRead, loc)
              /\ \A i \in 1..Len(AppsRead) :
                    ArrayAt(AppsWritten[i].m, "versions")
                        = EntriesOfVersions(Objects(AppsRead[i].m, "versions"), loc)

\* The apps "a", a string, "b" were read and the apps "a", "b" written.
C5_Witness ==
    /\ Done /\ run = "first"
    /\ ArrayAt(raw, "apps") = <<App1, JStr(TextA), App2>>
    /\ Len(AppsWritten) = 2
    /\ Text(AppsWritten[1].m, "name") = TextA
    /\ Text(AppsWritten[2].m, "name") = TextB

\* what an element of a screenshot list adds: a string itself, an object its
\* imageURL, or else its url, when they are not empty
UrlOfShot(e) ==
    CASE e.t = "str" -> <<e.s>>
      [] e.t = "obj" /\ Coerced(Field(e.m, "imageURL")) # <<>> ->
            <<Coerced(Field(e.m, "imageURL"))>>
      [] e.t = "obj" /\ Coerced(Field(e.m, "url")) # <<>> -> <<Coerced(Field(e.m, "url"))>>
      [] OTHER -> <<>>

RECURSIVE UrlsOfShots(_)
UrlsOfShots(a) == IF a = <<>> THEN <<>> ELSE UrlOfShot(Head(a)) \o UrlsOfShots(Tail(a))

\* the list that is read: screenshotURLs when the app has that key, the
\* legacy screenshots only when it has not
ShotsRead(am) ==
    IF "screenshotURLs" \in DOMAIN am THEN ArrayAt(am, "screenshotURLs")
    ELSE ArrayAt(am, "screenshots")

\* the strings of an array of strings
TextsOf(a) == [i \in 1..Len(a) |-> a[i].s]

\* C6: the screenshotURLs written for an app are built from its
\* screenshotURLs when the app has that key and from the legacy screenshots
\* only when it has not; each element adds, in the order of the input, at
\* most one URL: a string itself, an object its imageURL if not empty and
\* else its url if not empty, anything else nothing.
C6_ScreenshotsBuilt ==
    Done =>
        \A i \in 1..Len(AppsRead) :
            TextsOf(ArrayAt(AppsWritten[i].m, "screenshotURLs"))
                = UrlsOfShots(ShotsRead(AppsRead[i].m))

\* An app without screenshotURLs and with the screenshots
\* [{"imageURL":"a"},{"url":"b"},{"imageURL":"","url":""}] was written with
\* the screenshotURLs ["a","b"].
C6_Witness ==
    /\ Done /\ run = "first"
    /\ Len(AppsRead) = 1
    /\ "screenshotURLs" \notin DOMAIN AppsRead[1].m
    /\ Field(AppsRead[1].m, "screenshots") = LegacyShots
    /\ Field(AppsWritten[1].m, "screenshotURLs") = JArr(<<JStr(TextA), JStr(TextB)>>)

\* output.json as it was when the run began
FileBefore == IF run = "first" THEN NoFile ELSE [state |-> "whole", doc |-> firstOut]

\* C8: the stages follow one another without a retry; a stage that fails
\* ends the run with its own exit code, 1 for no argument, 2 for an input
\* that cannot be read, 3 for a top level that is no JSON object, 4 for the
\* encoder, 5 for the write; output.json is written and "wrote" printed only
\* when every stage has succeeded, and on every failing path output.json is
\* as it was before the run, not even a part of it written.
C8_StagesHaltCleanly ==
    /\ exitCode \in {-1, 0, 1, 2, 3, 4, 5}
    /\ pc = "exited" <=> exitCode # -1
    /\ exitCode = 1 => args < 2
    /\ exitCode = 2 => inFile.state # "whole"
    /\ exitCode = 3 => UnmarshalFails(b)
    /\ exitCode \in {4, 5} => out # NoOut
    /\ exitCode = 0 =>
          /\ outputFile = [state |-> "whole", doc |-> outBytes]
          /\ stdout = <<"wrote">>
    /\ exitCode # 0 => stdout \in {<<>>, <<"usage">>}
    /\ exitCode \in 1..5 => outputFile = FileBefore

\* The write failed after output.json was opened: the run ended with code 5
\* and left a part of a file.
C8_Witness ==
    /\ pc = "exited" /\ exitCode = 5
    /\ outputFile.state = "partial"
    /\ outputFile # FileBefore

\* C9: the appID written for a news item is the appID read, whatever its
\* type, null included, and none is written exactly when none was read.
C9_AppIDPassedThrough ==
    Done =>
        \A i \in 1..Len(NewsRead) :
            Field(NewsWritten[i].m, "appID") = Field(NewsRead[i].m, "appID")

\* A news item read with "appID": null was written without appID.
C9_Witness ==
    /\ Done /\ run = "first"
    /\ Len(NewsRead) = 1
    /\ Field(NewsRead[1].m, "appID") = Null
    /\ "appID" \notin DOMAIN NewsWritten[1].m

====
